---- MODULE Spec2Model ----
(***************************************************************************)
(* State-machine model of the mpl--frontend client.                        *)
(*                                                                         *)
(*  - Spec     : the auction view (PlayersPage, src/unnamed/part_003)      *)
(*               together with the part of the owners context it drives.   *)
(*  - SpecForm : the player registration form                              *)
(*               (src/src/components/RegistrationForm.tsx).                *)
(*  - SpecSearch : the search box of the auction view and its debounce     *)
(*               timer (src/unnamed/part_003).                             *)
(*  - SpecProviders : the mount effects, polling and responses of          *)
(*               OwnersProvider and FrontendDetailsProvider                *)
(*               (src/src/context), from a fresh mount.                    *)
(*  - SpecIndexPage : the index-based players page                         *)
(*               (src/src/pages/PlayersPage.tsx): card click, close,       *)
(*               owner assignment, its refreshes and timers.               *)
(*  - SpecConfig : the evaluation of the API configuration module          *)
(*               (src/unnamed/part_006) in every build environment.        *)
(*                                                                         *)
(* One action is one browser task: an event handler, a timer callback or   *)
(* the continuation of an awaited fetch, followed by the React render and  *)
(* the passive effects that render schedules.  Indices are 1-based here    *)
(* (0-based in the source); Null stands for the source's null index.       *)
(* The server answers a request with its state at the moment the response  *)
(* is delivered.                                                           *)
(*                                                                         *)
(* Scope of the auction model:                                             *)
(*  - OwnersProvider is mounted with the application, before the players   *)
(*    page: the page starts with the owner roster loaded.                  *)
(*  - the server returns an `owner` only for sold players, for which no    *)
(*    owner tile is rendered; a list entry keeps isSold and drops owner.   *)
(*  - of the filters isSold and search are modelled; the server matches    *)
(*    the search text against the mobile number.  The filter controls and  *)
(*    the player cards lie under the modal while it is rendered, the owner *)
(*    tiles under the congratulation overlay while it is shown.            *)
(*  - alertShown is the text of the blocking alert raised by the step just *)
(*    taken (NoAlert when the step raised none).                           *)
(*  - display-only state (error text, modalDirection, the text of the      *)
(*    congratulation message) is left out.                                 *)
(*                                                                         *)
(* Scope of the index-based page model:                                    *)
(*  - the arrow keys, the arrow buttons and the search box of that page    *)
(*    are left out; the bid counter stays at the 0 a card click sets.      *)
(*  - owner tiles are clicked for unsold players only.                     *)
(*                                                                         *)
(* Scope of the provider model:                                            *)
(*  - main.tsx renders the application inside StrictMode, so a mount       *)
(*    effect may be cleaned up and run again; effectRuns counts the runs   *)
(*    up to MaxEffectRuns.                                                 *)
(*  - the frontend details are one of two values, NoDetails or the         *)
(*    server's DetailsData; the owner roster is a set of owner ids.        *)
(*                                                                         *)
(* Scope of the registration-form model:                                   *)
(*  - text values are sequences of one-character strings, so that trim,    *)
(*    slice and the digit filters are computed as the code computes them.  *)
(*  - the user fills the fields other than the mobile number from top to   *)
(*    bottom and fills each of them once; the mobile number is edited at   *)
(*    any time.                                                            *)
(*  - the submit button is the only way to submit: a disabled default      *)
(*    button also blocks implicit submission with Enter.                   *)
(*  - submitSeesStatus is the mobileNumberStatus captured by the memoized  *)
(*    handleSubmit (useCallback with [formData]): the value rendered when  *)
(*    formData last changed.                                               *)
(***************************************************************************)
EXTENDS Integers, Sequences, FiniteSets, TLC

\* ------------------------------------------------------------------ bounds
NumPlayers == 3
MaxBid == 1000
MaxFetches == 2
MaxAssigns == 2
MaxSold == 1
MaxEffectRuns == 2

\* --------------------------------------------------------- program values
Null == 0
BidStep == 500

Mobiles == 1..NumPlayers
Owners == {"o1", "o2"}
NoOwner == "none"
NoAlert == "none"
IsSoldFilters == {"false", "all"}
FailureKinds == {"network", "status", "body"}

\* Categories are server data: a player's category does not change.
CategoryBasePrice == [gold |-> 500, silver |-> 1000]
CategoryOf(m) == IF m % 2 = 1 THEN "gold" ELSE "silver"

NoPlayer == [mobileNumber |-> Null, category |-> "none", isSold |-> FALSE]
NoTimer == [pending |-> FALSE, nextPlayerMobile |-> Null]
NoMessage == [shown |-> FALSE]
NoAssign == [pc |-> "idle", ownerId |-> NoOwner, mobileNumber |-> Null, bidAmount |-> 0,
             nextPlayerMobile |-> Null]

VARIABLES
    \* ---- auction view (PlayersPage)
    players,              \* players state == playersRef.current
    loading,
    selectedPlayerIndex,
    isModalOpen,
    filters,
    updatingOwner,
    successMessage,
    bidAmount,
    successTimeoutRef,
    alertShown,           \* the window.alert raised by the last task, if any
    fetches,              \* POST players requests in flight, in send order
    assigns,              \* handleOwnerSelect invocations that have not returned
    searchInput,          \* text in the search box
    searchTimers,         \* pending 500 ms debounce timers, each with its text
    \* ---- owners context
    owners,
    loadingOwners,
    ownerFetches,         \* GET owners requests in flight, in send order
    \* ---- the two context providers
    ownersProvider,       \* refs and effect state of OwnersProvider
    detailsProvider,      \* refs and effect state of FrontendDetailsProvider
    details,
    loadingDetails,
    detailsFetches,       \* GET frontendDetails requests in flight
    documentHidden,
    \* ---- server
    srvOwners,            \* server: the owner roster
    srvSold,              \* server: which players have been assigned an owner
    \* ---- registration form
    formData,
    errors,
    isSubmitting,
    submitStatus,
    showConfirmation,
    mobileNumberStatus,
    submitSeesStatus,     \* mobileNumberStatus inside handleSubmit's closure
    checkTimer,           \* number the pending 500 ms debounce timer will check
    checksInFlight,       \* numbers with a check-mobile request in flight
    registerRequest,      \* the POST register in flight
    srvRegistered,        \* server: registered mobile numbers
    \* ---- API configuration module
    env,                  \* import.meta.env of the build
    apiConfig,
    requestedUrl          \* the last URL getApiUrl returned

searchVars == <<searchInput, searchTimers>>

auctionVars == <<players, loading, selectedPlayerIndex, isModalOpen, filters,
                 updatingOwner, successMessage, bidAmount, successTimeoutRef, alertShown,
                 fetches, assigns, owners, loadingOwners, ownerFetches, srvSold,
                 searchVars>>

providerVars == <<ownersProvider, detailsProvider, details, loadingDetails,
                  detailsFetches, documentHidden, srvOwners>>

formVars == <<formData, errors, isSubmitting, submitStatus, showConfirmation,
              mobileNumberStatus, submitSeesStatus, checkTimer, checksInFlight,
              registerRequest, srvRegistered>>

configVars == <<env, apiConfig, requestedUrl>>

vars == <<auctionVars, formVars, providerVars, configVars>>

\* ----------------------------------------------------------------- helpers
RemoveAt(s, i) == [j \in 1..(Len(s) - 1) |-> IF j < i THEN s[j] ELSE s[j + 1]]

Max(a, b) == IF a >= b THEN a ELSE b

\* String.prototype.trim()
RECURSIVE Trim(_)
Trim(str) ==
    IF Len(str) = 0 THEN str
    ELSE IF Head(str) = " " THEN Trim(Tail(str))
    ELSE IF str[Len(str)] = " " THEN Trim(SubSeq(str, 1, Len(str) - 1))
    ELSE str

\* requestBody (useMemo): the isSold and search filters are modelled.
requestBody(f) == [isSold |-> f.isSold, search |-> Trim(f.search)]

\* The server's search matches a player by the text of its mobile number.
MobileText(m) == <<ToString(m)>>

\* What the server returns for POST players with the given body.
ServerRecord(m) ==
    [mobileNumber |-> m, category |-> CategoryOf(m),
     isSold |-> srvSold[m]]

ServerMatches(p, body) ==
    /\ \/ body.isSold = "all"
       \/ body.isSold = "false" /\ ~p.isSold
       \/ body.isSold = "true" /\ p.isSold
    /\ \/ body.search = <<>>
       \/ body.search = MobileText(p.mobileNumber)

ServerPlayers(body) ==
    SelectSeq([m \in 1..NumPlayers |-> ServerRecord(m)], LAMBDA p : ServerMatches(p, body))

getBasePriceDefault(player) == 0

getBasePrice(player) ==
    IF player = NoPlayer THEN 0 ELSE CategoryBasePrice[player.category]

getPlayerCategoryId(player) == player.category

SelectedOf(list, idx) ==
    IF idx # Null /\ Len(list) > 0 /\ idx <= Len(list) THEN list[idx] ELSE NoPlayer

selectedPlayer == SelectedOf(players, selectedPlayerIndex)

currentBasePrice == getBasePrice(selectedPlayer)

playersOfAllCategories(list, cat) == list

playersByCategoryMap(list, cat) ==
    SelectSeq(list, LAMBDA p : getPlayerCategoryId(p) = cat)

\* Array.prototype.findIndex on mobileNumber: first match, Null for -1.
findIndex(list, mobile) ==
    IF \E i \in 1..Len(list) : list[i].mobileNumber = mobile
        THEN CHOOSE i \in 1..Len(list) :
                /\ list[i].mobileNumber = mobile
                /\ \A j \in 1..(i - 1) : list[j].mobileNumber # mobile
        ELSE Null

\* playerIndexMap.get(mobile): the map keeps the last index set for a key.
playerIndexMap(list, mobile) ==
    IF \E i \in 1..Len(list) : list[i].mobileNumber = mobile
        THEN CHOOSE i \in 1..Len(list) :
                /\ list[i].mobileNumber = mobile
                /\ \A j \in (i + 1)..Len(list) : list[j].mobileNumber # mobile
        ELSE Null

findNextPlayerInListOrder(list, currentIndex, direction) ==
    IF Len(list) = 0 \/ currentIndex < 1 \/ currentIndex > Len(list) THEN Null
    ELSE IF direction = "next"
        THEN IF currentIndex < Len(list) THEN currentIndex + 1 ELSE Null
        ELSE IF currentIndex > 1 THEN currentIndex - 1 ELSE Null

findNextPlayerInCategoryOrder(list, currentIndex, direction) ==
    IF Len(list) = 0 \/ currentIndex < 1 \/ currentIndex > Len(list)
        THEN Null
        ELSE LET currentPlayer == list[currentIndex]
                 same == playersByCategoryMap(list, getPlayerCategoryId(currentPlayer))
                 pos == findIndex(same, currentPlayer.mobileNumber)
             IN  IF Len(same) = 0 \/ pos = Null THEN Null
                 ELSE IF direction = "next"
                     THEN IF pos < Len(same)
                              THEN playerIndexMap(list, same[pos + 1].mobileNumber)
                              ELSE Null
                     ELSE IF pos > 1
                              THEN playerIndexMap(list, same[pos - 1].mobileNumber)
                              ELSE Null

\* The mobile number handleOwnerSelect remembers as "the next slide": computed
\* from selectedPlayer and playersByCategoryMap of the render the click saw.
nextPlayerMobileOf(list, player) ==
    LET before == playersByCategoryMap(list, getPlayerCategoryId(player))
        pos == findIndex(before, player.mobileNumber)
    IN  IF pos # Null /\ pos < Len(before) THEN before[pos + 1].mobileNumber ELSE Null

\* useEffect([selectedPlayer?.mobileNumber, isModalOpen]): after a render in
\* which one of the two changed, the counter is set to the base price of the
\* selected player when there is one and the modal is open.
EffectBidNoReset(prevSel, prevOpen, newSel, newOpen, bid) == bid

EffectBid(prevSel, prevOpen, newSel, newOpen, bid) ==
    IF /\ (prevSel.mobileNumber # newSel.mobileNumber \/ prevOpen # newOpen)
       /\ newSel # NoPlayer
       /\ newOpen
        THEN getBasePrice(newSel)
        ELSE bid

\* ArrowUp / ArrowDown updates of the counter.
ArrowUpBidFromBase(prev, basePrice) == basePrice + BidStep

ArrowUpBid(prev, basePrice) == (IF prev < basePrice THEN basePrice ELSE prev) + BidStep

ArrowDownBidNoFloor(prev, basePrice) == Max(0, prev - BidStep)

ArrowDownBid(prev, basePrice) == Max(basePrice, prev - BidStep)

\* The auto-advance callback's lookup of the remembered next player in
\* playersRef.current: by mobile number, Null when there is none.
autoAdvanceIndexByPosition(latestPlayers, nextPlayerMobile) ==
    IF nextPlayerMobile # Null /\ nextPlayerMobile <= Len(latestPlayers)
        THEN nextPlayerMobile ELSE Null

autoAdvanceIndex(latestPlayers, nextPlayerMobile) ==
    IF nextPlayerMobile # Null THEN findIndex(latestPlayers, nextPlayerMobile) ELSE Null

\* What handleCloseModal sets: isModalOpen, selectedPlayerIndex, bidAmount.
closedModalKeepsCursor ==
    [isModalOpen |-> FALSE, selectedPlayerIndex |-> selectedPlayerIndex, bidAmount |-> 0]

closedModal == [isModalOpen |-> FALSE, selectedPlayerIndex |-> Null, bidAmount |-> 0]

\* fetchPlayers applies every successful response: there is no check that
\* the request (the i-th of those in flight) is the most recent one.
appliesLatestOnly(i, inFlight) == i = Len(inFlight)

appliesResponse(i, inFlight) == TRUE

\* The modal, and with it the owner tiles and arrows, is in the DOM.
ModalRendered == isModalOpen /\ selectedPlayer # NoPlayer

\* The congratulation overlay is rendered inside the modal.
OverlayDisplayed == ModalRendered /\ successMessage.shown

\* The previous / next arrow button is rendered inside the modal.
ArrowOffered(direction) ==
    /\ ModalRendered
    /\ selectedPlayerIndex # Null
    /\ findNextPlayerInCategoryOrder(players, selectedPlayerIndex, direction) # Null

\* isSelected = selectedPlayer.owner?.id === owner.id: false for the unsold
\* players the tiles are rendered for.
isSelected(player, ownerId) == FALSE

\* isUpdating = updatingOwner === owner.id
isUpdating(ownerId) == updatingOwner = ownerId

\* await Promise.all([fetchPlayers(true), refreshOwners()])
PromiseRace(playersSettled, ownersSettled) == playersSettled \/ ownersSettled

PromiseAll(playersSettled, ownersSettled) == playersSettled /\ ownersSettled

FreeSlots == {a \in 1..MaxAssigns : assigns[a] = NoAssign}

TaggedIn(reqs, a) == \E i \in 1..Len(reqs) : reqs[i].awaiter = a

\* ------------------------------------------------------- context providers
NoDetails == 0
DetailsData == 1
OwnerRosters == {{"o1"}, Owners}

FreshProvider ==
    [fetchedRef |-> FALSE, polling |-> FALSE, effectActive |-> FALSE,
     hasCleanup |-> FALSE, effectRuns |-> 0, initialFetches |-> 0]

\* A provider whose mount effect has run once and is in place.
MountedProvider(polls) ==
    [fetchedRef |-> TRUE, polling |-> polls, effectActive |-> TRUE,
     hasCleanup |-> polls, effectRuns |-> 1, initialFetches |-> 1]

\* `if (fetchedRef.current) return;`
neverGuards(provider) == FALSE

alreadyFetched(provider) == provider.fetchedRef

\* `if (!document.hidden) fetchOwners(true)` in the interval callback
pollsWhenHidden(hidden) == TRUE

shouldPoll(hidden) == ~hidden

\* The cached value after a fetch that failed: no setter is called.
clearsOnFailure(cached, empty) == empty

afterFailure(cached, empty) == cached

\* ------------------------------------------------------------- search box
SearchInputs == {<<>>, <<"1">>, <<"1", " ">>, <<"2">>}

\* Cleanup of the debounce effect: clearTimeout(timeoutId) cancels the timer
\* the last run of the effect started (the last one here), if still pending.
clearTimeoutKept(timers) == timers

clearTimeout(timers) ==
    IF Len(timers) = 0 THEN timers ELSE SubSeq(timers, 1, Len(timers) - 1)

\* The debounce effect after a render in which searchInput changed.
debounceEffect(timers, text) == Append(clearTimeout(timers), text)

DefaultFilters == [isSold |-> "false", search |-> <<>>]

\* ------------------------------------------------------------------- Init
InitPage ==
    /\ players = <<>>
    /\ loading = TRUE
    /\ selectedPlayerIndex = Null
    /\ isModalOpen = FALSE
    /\ filters = DefaultFilters
    /\ updatingOwner = NoOwner
    /\ successMessage = NoMessage
    /\ bidAmount = 0
    /\ successTimeoutRef = NoTimer
    /\ alertShown = NoAlert
    \* mount effect: fetchPlayers(false, requestBody)
    /\ fetches = <<[silent |-> FALSE, body |-> requestBody(DefaultFilters),
                    awaiter |-> Null]>>
    \* mount run of the debounce effect: a timer for the empty search text
    /\ searchInput = <<>>
    /\ searchTimers = <<<<>>>>
    /\ assigns = [a \in 1..MaxAssigns |-> NoAssign]
    /\ srvSold = [m \in Mobiles |-> FALSE]

\* The players page is opened with both providers mounted and loaded.
ProvidersLoaded ==
    /\ owners = Owners
    /\ loadingOwners = FALSE
    /\ ownerFetches = <<>>
    /\ ownersProvider = MountedProvider(TRUE)
    /\ detailsProvider = MountedProvider(FALSE)
    /\ details = DetailsData
    /\ loadingDetails = FALSE
    /\ detailsFetches = 0
    /\ documentHidden = FALSE
    /\ srvOwners = Owners

\* The application is rendered for the first time, no effect has run yet.
ProvidersFresh ==
    /\ owners = {}
    /\ loadingOwners = TRUE
    /\ ownerFetches = <<>>
    /\ ownersProvider = FreshProvider
    /\ detailsProvider = FreshProvider
    /\ details = NoDetails
    /\ loadingDetails = TRUE
    /\ detailsFetches = 0
    /\ documentHidden = FALSE
    /\ srvOwners = Owners

InitAuction == InitPage /\ ProvidersLoaded


\* ---------------------------------------------------------------- actions

\* The code after `await Promise.all(...)` in handleOwnerSelect, for the
\* invocation in slot a: congratulation overlay, 4 s auto-advance timer
\* (replacing a pending one), then `finally { setUpdatingOwner(null) }`.
AfterRefresh(a) ==
    /\ successMessage' = [shown |-> TRUE]
    /\ successTimeoutRef' = [pending |-> TRUE,
                             nextPlayerMobile |-> assigns[a].nextPlayerMobile]
    /\ updatingOwner' = NoOwner
    /\ assigns' = [assigns EXCEPT ![a] = NoAssign]

\* Does the settling of a refresh request resume the invocation awaiting it?
Resumes(a, fs, ofs) ==
    /\ a # Null
    /\ assigns[a].pc = "refresh"
    /\ PromiseAll(~TaggedIn(fs, a), ~TaggedIn(ofs, a))

\* handleFilterChange('isSold', v) -> requestBody changes -> the effect calls
\* fetchPlayers(false, requestBody).
ChangeFilter(v) ==
    /\ ~ModalRendered
    /\ v # filters.isSold
    /\ Len(fetches) < MaxFetches
    /\ filters' = [filters EXCEPT !.isSold = v]
    /\ loading' = TRUE
    /\ fetches' = Append(fetches, [silent |-> FALSE,
                                   body |-> requestBody([filters EXCEPT !.isSold = v]),
                                   awaiter |-> Null])
    /\ UNCHANGED <<players, selectedPlayerIndex, isModalOpen, updatingOwner, successMessage,
                   bidAmount, successTimeoutRef, assigns, owners, loadingOwners,
                   ownerFetches, srvSold>>
    /\ alertShown' = NoAlert
    /\ UNCHANGED <<searchVars, formVars, providerVars, configVars>>

\* The response to the i-th POST players request in flight arrives
\* (fetchPlayers after its await), in any order relative to the others.
PlayersResponse(i, ok) ==
    /\ i \in 1..Len(fetches)
    /\ LET req == fetches[i]
           rest == RemoveAt(fetches, i)
           data == ServerPlayers(req.body)
           newPlayers == IF ok /\ appliesResponse(i, fetches) THEN data ELSE players
       IN  /\ fetches' = rest
           /\ players' = newPlayers
           /\ loading' = IF req.silent THEN loading ELSE FALSE
           /\ bidAmount' = EffectBid(selectedPlayer, isModalOpen,
                                     SelectedOf(newPlayers, selectedPlayerIndex),
                                     isModalOpen, bidAmount)
           /\ IF Resumes(req.awaiter, rest, ownerFetches)
                  THEN AfterRefresh(req.awaiter)
                  ELSE UNCHANGED <<successMessage, successTimeoutRef, updatingOwner, assigns>>
    /\ UNCHANGED <<selectedPlayerIndex, isModalOpen, filters, owners, loadingOwners,
                   ownerFetches, srvSold>>
    /\ alertShown' = NoAlert
    /\ UNCHANGED <<searchVars, formVars, providerVars, configVars>>

\* The response to the i-th GET owners request in flight arrives (fetchOwners).
OwnersResponse(i, ok) ==
    /\ i \in 1..Len(ownerFetches)
    /\ LET req == ownerFetches[i]
           rest == RemoveAt(ownerFetches, i)
       IN  /\ ownerFetches' = rest
           /\ owners' = IF ok THEN srvOwners ELSE afterFailure(owners, {})
           /\ loadingOwners' = IF req.silent THEN loadingOwners ELSE FALSE
           /\ IF Resumes(req.awaiter, fetches, rest)
                  THEN AfterRefresh(req.awaiter)
                  ELSE UNCHANGED <<successMessage, successTimeoutRef, updatingOwner, assigns>>
    /\ UNCHANGED <<players, loading, selectedPlayerIndex, isModalOpen, filters,
                   bidAmount, fetches, srvSold>>
    /\ alertShown' = NoAlert
    /\ UNCHANGED <<searchVars, formVars, providerVars, configVars>>

\* A player card is clicked (cards are covered while the modal is rendered).
handlePlayerClick(playerIndex) ==
    /\ ~ModalRendered
    /\ playerIndex \in 1..Len(players)
    /\ selectedPlayerIndex' = playerIndex
    /\ isModalOpen' = TRUE
    /\ bidAmount' = EffectBid(selectedPlayer, isModalOpen, players[playerIndex], TRUE,
                              getBasePrice(players[playerIndex]))
    /\ UNCHANGED <<players, loading, filters, updatingOwner, successMessage,
                   successTimeoutRef, fetches, assigns, owners, loadingOwners,
                   ownerFetches, srvSold>>
    /\ alertShown' = NoAlert
    /\ UNCHANGED <<searchVars, formVars, providerVars, configVars>>

\* handleCloseModal: called by the close button, a backdrop click, Escape.
handleCloseModal ==
    /\ successTimeoutRef' = NoTimer
    /\ isModalOpen' = closedModal.isModalOpen
    /\ selectedPlayerIndex' = closedModal.selectedPlayerIndex
    /\ bidAmount' = closedModal.bidAmount
    /\ successMessage' = NoMessage
    /\ UNCHANGED <<players, loading, filters, updatingOwner, fetches, assigns,
                   owners, loadingOwners, ownerFetches, srvSold>>
    /\ alertShown' = NoAlert
    /\ UNCHANGED <<searchVars, formVars, providerVars, configVars>>

\* handleNextPlayer / handlePreviousPlayer: arrow button or Left/Right key.
Navigate(direction) ==
    /\ LET target == IF selectedPlayerIndex # Null
                         THEN findNextPlayerInCategoryOrder(players, selectedPlayerIndex,
                                                            direction)
                         ELSE Null
       IN  IF target # Null /\ target >= 1 /\ target <= Len(players)
               THEN /\ selectedPlayerIndex' = target
                    /\ bidAmount' = EffectBid(selectedPlayer, isModalOpen, players[target],
                                              isModalOpen, getBasePrice(players[target]))
               ELSE UNCHANGED <<selectedPlayerIndex, bidAmount>>
    /\ UNCHANGED <<players, loading, isModalOpen, filters, updatingOwner,
                   successMessage, successTimeoutRef, fetches, assigns, owners,
                   loadingOwners, ownerFetches, srvSold>>
    /\ alertShown' = NoAlert
    /\ UNCHANGED <<searchVars, formVars, providerVars, configVars>>

handleNextPlayer == Navigate("next")

handlePreviousPlayer == Navigate("prev")

\* handleKeyDown past the ArrowUp / ArrowDown branches: `if (!isModalOpen)
\* return;`, then Escape, ArrowLeft, ArrowRight.  The close and arrow buttons
\* exist only in the rendered modal and call the same handlers, so a click on
\* one of them is the step of the corresponding key.
ModalKeys == {"Escape", "ArrowLeft", "ArrowRight"}

shortcutsAlwaysActive(open) == TRUE

modalShortcutsActive(open) == open

handleKeyDown(key) ==
    IF ~modalShortcutsActive(isModalOpen)
        THEN UNCHANGED vars
        ELSE CASE key = "Escape" -> handleCloseModal
               [] key = "ArrowLeft" -> handlePreviousPlayer
               [] OTHER -> handleNextPlayer

\* handleKeyDown, ArrowUp branch (works with the modal open or closed).
KeyArrowUp ==
    /\ ArrowUpBid(bidAmount, currentBasePrice) <= MaxBid
    /\ bidAmount' = ArrowUpBid(bidAmount, currentBasePrice)
    /\ UNCHANGED <<players, loading, selectedPlayerIndex, isModalOpen, filters,
                   updatingOwner, successMessage, successTimeoutRef, fetches, assigns,
                   owners, loadingOwners, ownerFetches, srvSold>>
    /\ alertShown' = NoAlert
    /\ UNCHANGED <<searchVars, formVars, providerVars, configVars>>

\* handleKeyDown, ArrowDown branch.
KeyArrowDown ==
    /\ bidAmount' = ArrowDownBid(bidAmount, currentBasePrice)
    /\ UNCHANGED <<players, loading, selectedPlayerIndex, isModalOpen, filters,
                   updatingOwner, successMessage, successTimeoutRef, fetches, assigns,
                   owners, loadingOwners, ownerFetches, srvSold>>
    /\ alertShown' = NoAlert
    /\ UNCHANGED <<searchVars, formVars, providerVars, configVars>>

\* An owner tile is clicked: handleOwnerSelect up to its first await.  The
\* tile exists for an unsold selected player once the owners are loaded and
\* is disabled while isUpdating || isSelected.
handleOwnerSelect(ownerId) ==
    /\ ModalRendered
    /\ ~successMessage.shown
    /\ ~selectedPlayer.isSold
    /\ ~loadingOwners
    /\ ownerId \in owners
    /\ ~(isUpdating(ownerId) \/ isSelected(selectedPlayer, ownerId))
    /\ FreeSlots # {}
    /\ LET a == CHOOSE s \in FreeSlots : \A t \in FreeSlots : s <= t
       IN  assigns' = [assigns EXCEPT ![a] =
                [pc |-> "put", ownerId |-> ownerId,
                 mobileNumber |-> selectedPlayer.mobileNumber,
                 bidAmount |-> bidAmount,
                 nextPlayerMobile |-> nextPlayerMobileOf(players, selectedPlayer)]]
    /\ updatingOwner' = ownerId
    /\ UNCHANGED <<players, loading, selectedPlayerIndex, isModalOpen, filters,
                   successMessage, bidAmount, successTimeoutRef, fetches, owners,
                   loadingOwners, ownerFetches, srvSold>>
    /\ alertShown' = NoAlert
    /\ UNCHANGED <<searchVars, formVars, providerVars, configVars>>

\* The PUT players/{mobileNumber} of invocation a is answered with success:
\* the server records the owner, the handler starts both refreshes.
AssignSucceeds(a) ==
    /\ assigns[a].pc = "put"
    /\ Len(fetches) < MaxFetches
    /\ Len(ownerFetches) < MaxFetches
    /\ Cardinality({m \in Mobiles : srvSold[m]}) < MaxSold
    /\ srvSold' = [srvSold EXCEPT ![assigns[a].mobileNumber] = TRUE]
    \* past the PUT only nextPlayerMobile is still used from the closure
    /\ assigns' = [assigns EXCEPT ![a] = [NoAssign EXCEPT !.pc = "refresh",
                        !.nextPlayerMobile = assigns[a].nextPlayerMobile]]
    \* fetchPlayers(true): body from requestBodyRef.current
    /\ fetches' = Append(fetches, [silent |-> TRUE, body |-> requestBody(filters),
                                   awaiter |-> a])
    \* refreshOwners() == fetchOwners() with silent = false
    /\ loadingOwners' = TRUE
    /\ ownerFetches' = Append(ownerFetches, [silent |-> FALSE, awaiter |-> a])
    /\ UNCHANGED <<players, loading, selectedPlayerIndex, isModalOpen, filters,
                   updatingOwner, successMessage, bidAmount, successTimeoutRef, owners>>
    /\ alertShown' = NoAlert
    /\ UNCHANGED <<searchVars, formVars, providerVars, configVars>>

\* The text handed to alert(): the message or error of the response body
\* when the server sent one, else a fixed text (for a network error the
\* message of the error thrown by fetch).
silentFailure(kind, serverMessage) == NoAlert

alertMessage(kind, serverMessage) ==
    IF kind # "network" /\ serverMessage THEN "server" ELSE "generic"

\* The PUT fails (network error, non-2xx or success false): the error is
\* thrown into the catch, which alerts; finally clears updatingOwner.
AssignFails(a, kind, serverMessage) ==
    /\ assigns[a].pc = "put"
    /\ assigns' = [assigns EXCEPT ![a] = NoAssign]
    /\ alertShown' = alertMessage(kind, serverMessage)
    /\ updatingOwner' = NoOwner
    /\ UNCHANGED <<players, loading, selectedPlayerIndex, isModalOpen, filters,
                   successMessage, bidAmount, successTimeoutRef, fetches, owners,
                   loadingOwners, ownerFetches, srvSold>>
    /\ UNCHANGED <<searchVars, formVars, providerVars, configVars>>

\* The 4 s auto-advance timer fires.
AutoAdvance ==
    /\ successTimeoutRef.pending
    /\ LET nextPlayerMobile == successTimeoutRef.nextPlayerMobile
           nextIndex == autoAdvanceIndex(players, nextPlayerMobile)
       IN  IF nextIndex # Null
               THEN /\ selectedPlayerIndex' = nextIndex
                    /\ bidAmount' = EffectBid(selectedPlayer, isModalOpen, players[nextIndex],
                                              isModalOpen, getBasePrice(players[nextIndex]))
                    /\ UNCHANGED isModalOpen
               ELSE \* handleCloseModal()
                    /\ isModalOpen' = closedModal.isModalOpen
                    /\ selectedPlayerIndex' = closedModal.selectedPlayerIndex
                    /\ bidAmount' = closedModal.bidAmount
    /\ successMessage' = NoMessage
    /\ successTimeoutRef' = NoTimer
    /\ UNCHANGED <<players, loading, filters, updatingOwner, fetches, assigns,
                   owners, loadingOwners, ownerFetches, srvSold>>
    /\ alertShown' = NoAlert
    /\ UNCHANGED <<searchVars, formVars, providerVars, configVars>>

NextAuction ==
    \/ \E v \in IsSoldFilters : ChangeFilter(v)
    \/ \E i \in 1..MaxFetches, ok \in BOOLEAN : PlayersResponse(i, ok)
    \/ \E i \in 1..MaxFetches, ok \in BOOLEAN : OwnersResponse(i, ok)
    \/ \E i \in 1..NumPlayers : handlePlayerClick(i)
    \/ \E key \in ModalKeys : handleKeyDown(key)
    \/ KeyArrowUp
    \/ KeyArrowDown
    \/ \E o \in Owners : handleOwnerSelect(o)
    \/ \E a \in 1..MaxAssigns : AssignSucceeds(a)
    \/ \E a \in 1..MaxAssigns, kind \in FailureKinds, serverMessage \in BOOLEAN :
          AssignFails(a, kind, serverMessage)
    \/ AutoAdvance

\* ------------------------------- index-based players page (SpecIndexPage)
\* src/src/pages/PlayersPage.tsx keeps the same state as the auction view
\* (allPlayers is set together with players and equals it) but has no
\* successTimeoutRef: its timers are never cancelled.  An invocation of its
\* handleOwnerSelect carries the values its closure captured: the cursor,
\* the list and the request body of the render in which the tile was clicked.

\* The response to the i-th POST players in flight arrives; fetchPlayers
\* catches its own errors, so whoever awaits it continues in either case.
IP_PlayersResponse(i, ok) ==
    /\ i \in 1..Len(fetches)
    /\ LET req == fetches[i]
           a == req.awaiter
       IN  /\ fetches' = RemoveAt(fetches, i)
           /\ players' = IF ok THEN ServerPlayers(req.body) ELSE players
           /\ loading' = FALSE
           /\ IF a # Null /\ assigns[a].pc = "refresh"
                  THEN \* after `await fetchPlayers()`: overlay, 4 s timer, finally
                       /\ successMessage' = [shown |-> TRUE]
                       /\ bidAmount' = 0
                       /\ updatingOwner' = NoOwner
                       /\ assigns' = [assigns EXCEPT ![a].pc = "overlay"]
                  ELSE IF a # Null /\ assigns[a].pc = "refetch"
                  THEN \* `.then` of the timer's fetchPlayers()
                       /\ IF assigns[a].selectedPlayerIndex < Len(assigns[a].allPlayers)
                              THEN /\ bidAmount' = 0
                                   /\ assigns' = [assigns EXCEPT ![a].pc = "slide"]
                              ELSE /\ assigns' = [assigns EXCEPT ![a] = NoAssign]
                                   /\ UNCHANGED bidAmount
                       /\ UNCHANGED <<successMessage, updatingOwner>>
                  ELSE UNCHANGED <<successMessage, bidAmount, updatingOwner, assigns>>
    /\ UNCHANGED <<selectedPlayerIndex, isModalOpen, filters, successTimeoutRef, owners,
                   loadingOwners, ownerFetches, srvSold>>
    /\ alertShown' = NoAlert
    /\ UNCHANGED <<searchVars, formVars, providerVars, configVars>>

IP_handlePlayerClick(playerIndex) ==
    /\ ~ModalRendered
    /\ playerIndex \in 1..Len(players)
    /\ bidAmount' = 0
    /\ selectedPlayerIndex' = playerIndex
    /\ isModalOpen' = TRUE
    /\ UNCHANGED <<players, loading, filters, updatingOwner, successMessage,
                   successTimeoutRef, fetches, assigns, owners, loadingOwners,
                   ownerFetches, srvSold>>
    /\ alertShown' = NoAlert
    /\ UNCHANGED <<searchVars, formVars, providerVars, configVars>>

IP_handleCloseModal ==
    /\ isModalOpen
    /\ isModalOpen' = FALSE
    /\ selectedPlayerIndex' = Null
    /\ UNCHANGED <<players, loading, filters, updatingOwner, successMessage, bidAmount,
                   successTimeoutRef, fetches, assigns, owners, loadingOwners,
                   ownerFetches, srvSold>>
    /\ alertShown' = NoAlert
    /\ UNCHANGED <<searchVars, formVars, providerVars, configVars>>

\* An owner tile is clicked: handleOwnerSelect up to its first await.
IP_handleOwnerSelect(ownerId) ==
    /\ ModalRendered
    /\ ~successMessage.shown
    /\ ~selectedPlayer.isSold
    /\ ~loadingOwners
    /\ ownerId \in owners
    /\ ~(isUpdating(ownerId) \/ isSelected(selectedPlayer, ownerId))
    /\ FreeSlots # {}
    /\ LET a == CHOOSE s \in FreeSlots : \A t \in FreeSlots : s <= t
       IN  assigns' = [assigns EXCEPT ![a] =
                [pc |-> "put", ownerId |-> ownerId,
                 mobileNumber |-> selectedPlayer.mobileNumber,
                 bidAmount |-> bidAmount,
                 selectedPlayerIndex |-> selectedPlayerIndex,
                 allPlayers |-> players,
                 requestBody |-> requestBody(filters)]]
    /\ updatingOwner' = ownerId
    /\ UNCHANGED <<players, loading, selectedPlayerIndex, isModalOpen, filters,
                   successMessage, bidAmount, successTimeoutRef, fetches, owners,
                   loadingOwners, ownerFetches, srvSold>>
    /\ alertShown' = NoAlert
    /\ UNCHANGED <<searchVars, formVars, providerVars, configVars>>

\* The PUT is answered with success: `await fetchPlayers()`.
IP_AssignSucceeds(a) ==
    /\ assigns[a].pc = "put"
    /\ Len(fetches) < MaxFetches
    /\ Cardinality({m \in Mobiles : srvSold[m]}) < MaxSold
    /\ srvSold' = [srvSold EXCEPT ![assigns[a].mobileNumber] = TRUE]
    /\ assigns' = [assigns EXCEPT ![a].pc = "refresh"]
    /\ loading' = TRUE
    /\ fetches' = Append(fetches, [silent |-> FALSE, body |-> assigns[a].requestBody,
                                   awaiter |-> a])
    /\ UNCHANGED <<players, selectedPlayerIndex, isModalOpen, filters, updatingOwner,
                   successMessage, bidAmount, successTimeoutRef, owners, loadingOwners,
                   ownerFetches>>
    /\ alertShown' = NoAlert
    /\ UNCHANGED <<searchVars, formVars, providerVars, configVars>>

\* The 4 s timer fires: the overlay goes and fetchPlayers() is called again.
IP_OverlayTimerFires(a) ==
    /\ assigns[a].pc = "overlay"
    /\ Len(fetches) < MaxFetches
    /\ successMessage' = NoMessage
    /\ assigns' = [assigns EXCEPT ![a].pc = "refetch"]
    /\ loading' = TRUE
    /\ fetches' = Append(fetches, [silent |-> FALSE, body |-> assigns[a].requestBody,
                                   awaiter |-> a])
    /\ UNCHANGED <<players, selectedPlayerIndex, isModalOpen, filters, updatingOwner,
                   bidAmount, successTimeoutRef, owners, loadingOwners, ownerFetches,
                   srvSold>>
    /\ alertShown' = NoAlert
    /\ UNCHANGED <<searchVars, formVars, providerVars, configVars>>

\* The 300 ms timer of the slide fires: setSelectedPlayerIndex(currentIndex + 1).
IP_SlideTimerFires(a) ==
    /\ assigns[a].pc = "slide"
    /\ selectedPlayerIndex' = assigns[a].selectedPlayerIndex + 1
    /\ assigns' = [assigns EXCEPT ![a] = NoAssign]
    /\ UNCHANGED <<players, loading, isModalOpen, filters, updatingOwner, successMessage,
                   bidAmount, successTimeoutRef, fetches, owners, loadingOwners,
                   ownerFetches, srvSold>>
    /\ alertShown' = NoAlert
    /\ UNCHANGED <<searchVars, formVars, providerVars, configVars>>

NextIndexPage ==
    \/ \E v \in IsSoldFilters : ChangeFilter(v)
    \/ \E i \in 1..MaxFetches, ok \in BOOLEAN : IP_PlayersResponse(i, ok)
    \/ \E i \in 1..NumPlayers : IP_handlePlayerClick(i)
    \/ IP_handleCloseModal
    \/ \E o \in Owners : IP_handleOwnerSelect(o)
    \/ \E a \in 1..MaxAssigns : IP_AssignSucceeds(a)
    \/ \E a \in 1..MaxAssigns, kind \in FailureKinds, serverMessage \in BOOLEAN :
          AssignFails(a, kind, serverMessage)
    \/ \E a \in 1..MaxAssigns : IP_OverlayTimerFires(a)
    \/ \E a \in 1..MaxAssigns : IP_SlideTimerFires(a)

\* --------------------------------------------------- search box (SpecSearch)

\* setFilters with a new search text: requestBody is recomputed when
\* filters.search changed, and the effect on [requestBody] then calls
\* fetchPlayers(false, requestBody).
ApplySearch(text) ==
    /\ filters' = [filters EXCEPT !.search = text]
    /\ IF text # filters.search
           THEN /\ Len(fetches) < MaxFetches
                /\ loading' = TRUE
                /\ fetches' = Append(fetches,
                                     [silent |-> FALSE,
                                      body |-> requestBody([filters EXCEPT !.search = text]),
                                      awaiter |-> Null])
           ELSE UNCHANGED <<loading, fetches>>

PageRest == <<players, selectedPlayerIndex, isModalOpen, updatingOwner, successMessage,
              bidAmount, successTimeoutRef, assigns, owners, loadingOwners, ownerFetches,
              srvSold>>

\* A keystroke in the search box: handleSearchChange, then the debounce effect.
handleSearchChange(value) ==
    /\ ~ModalRendered
    /\ value # searchInput
    /\ searchInput' = value
    /\ searchTimers' = debounceEffect(searchTimers, value)
    /\ alertShown' = NoAlert
    /\ UNCHANGED <<filters, loading, fetches, PageRest>>
    /\ UNCHANGED <<formVars, providerVars, configVars>>

\* A debounce timer fires, 500 ms after it was started.
SearchTimerFires(i) ==
    /\ i \in 1..Len(searchTimers)
    /\ searchTimers' = RemoveAt(searchTimers, i)
    /\ ApplySearch(searchTimers[i])
    /\ alertShown' = NoAlert
    /\ UNCHANGED <<searchInput, PageRest>>
    /\ UNCHANGED <<formVars, providerVars, configVars>>

\* Enter in the search box submits the form around it.
handleSearchSubmit ==
    /\ ~ModalRendered
    /\ ApplySearch(searchInput)
    /\ alertShown' = NoAlert
    /\ UNCHANGED <<searchVars, PageRest>>
    /\ UNCHANGED <<formVars, providerVars, configVars>>

\* The X button inside the box, rendered while the box is not empty.
clearSearchInput ==
    /\ ~ModalRendered
    /\ searchInput # <<>>
    /\ searchInput' = <<>>
    /\ searchTimers' = debounceEffect(searchTimers, <<>>)
    /\ ApplySearch(<<>>)
    /\ alertShown' = NoAlert
    /\ UNCHANGED PageRest
    /\ UNCHANGED <<formVars, providerVars, configVars>>

\* "Clear All"
clearFilters ==
    /\ ~ModalRendered
    /\ filters' = DefaultFilters
    /\ searchInput' = <<>>
    /\ searchTimers' = IF searchInput # <<>> THEN debounceEffect(searchTimers, <<>>)
                       ELSE searchTimers
    /\ IF filters # DefaultFilters
           THEN /\ Len(fetches) < MaxFetches
                /\ loading' = TRUE
                /\ fetches' = Append(fetches, [silent |-> FALSE,
                                               body |-> requestBody(DefaultFilters),
                                               awaiter |-> Null])
           ELSE UNCHANGED <<loading, fetches>>
    /\ alertShown' = NoAlert
    /\ UNCHANGED PageRest
    /\ UNCHANGED <<formVars, providerVars, configVars>>

NextSearch ==
    \/ \E value \in SearchInputs : handleSearchChange(value)
    \/ \E i \in 1..Len(searchTimers) : SearchTimerFires(i)
    \/ handleSearchSubmit
    \/ clearSearchInput
    \/ clearFilters
    \/ \E v \in IsSoldFilters : ChangeFilter(v)
    \/ \E i \in 1..MaxFetches, ok \in BOOLEAN : PlayersResponse(i, ok)

\* ------------------------------------------- context providers (SpecProviders)

ProviderFrame == UNCHANGED <<players, loading, selectedPlayerIndex, isModalOpen, filters,
                             updatingOwner, successMessage, bidAmount, successTimeoutRef,
                             alertShown, fetches, assigns, srvSold, searchVars, formVars,
                             configVars>>

\* The mount effect of OwnersProvider runs (a second time under StrictMode,
\* after the cleanup of the first run).
OwnersMountEffect ==
    /\ ~ownersProvider.effectActive
    /\ ownersProvider.effectRuns < MaxEffectRuns
    /\ Len(ownerFetches) < MaxFetches
    /\ IF alreadyFetched(ownersProvider)
           THEN /\ ownersProvider' = [ownersProvider EXCEPT !.effectActive = TRUE,
                                                            !.effectRuns = @ + 1]
                /\ UNCHANGED <<loadingOwners, ownerFetches>>
           ELSE /\ ownersProvider' = [fetchedRef |-> TRUE, polling |-> TRUE,
                                      effectActive |-> TRUE, hasCleanup |-> TRUE,
                                      effectRuns |-> ownersProvider.effectRuns + 1,
                                      initialFetches |-> ownersProvider.initialFetches + 1]
                \* fetchOwners()
                /\ loadingOwners' = TRUE
                /\ ownerFetches' = Append(ownerFetches, [silent |-> FALSE, awaiter |-> Null])
    /\ UNCHANGED <<owners, detailsProvider, details, loadingDetails, detailsFetches,
                   documentHidden, srvOwners>>
    /\ ProviderFrame

\* The effect is torn down (StrictMode's simulated unmount, or unmount): the
\* cleanup the run returned, if it returned one, clears the interval.
OwnersEffectCleanup ==
    /\ ownersProvider.effectActive
    /\ ownersProvider' = [ownersProvider EXCEPT
                              !.effectActive = FALSE,
                              !.hasCleanup = FALSE,
                              !.polling = IF ownersProvider.hasCleanup THEN FALSE ELSE @]
    /\ UNCHANGED <<owners, loadingOwners, ownerFetches, detailsProvider, details,
                   loadingDetails, detailsFetches, documentHidden, srvOwners>>
    /\ ProviderFrame

\* The 3000 ms interval ticks.
OwnersPollTick ==
    /\ ownersProvider.polling
    /\ Len(ownerFetches) < MaxFetches
    /\ IF shouldPoll(documentHidden)
           THEN \* fetchOwners(true)
                ownerFetches' = Append(ownerFetches, [silent |-> TRUE, awaiter |-> Null])
           ELSE UNCHANGED ownerFetches
    /\ UNCHANGED <<owners, loadingOwners, ownersProvider, detailsProvider, details,
                   loadingDetails, detailsFetches, documentHidden, srvOwners>>
    /\ ProviderFrame

\* A consumer calls refresh(), which is fetchOwners with silent = false.
refreshOwners ==
    /\ ownersProvider.fetchedRef
    /\ Len(ownerFetches) < MaxFetches
    /\ loadingOwners' = TRUE
    /\ ownerFetches' = Append(ownerFetches, [silent |-> FALSE, awaiter |-> Null])
    /\ UNCHANGED <<owners, ownersProvider, detailsProvider, details, loadingDetails,
                   detailsFetches, documentHidden, srvOwners>>
    /\ ProviderFrame

\* The mount effect of FrontendDetailsProvider runs: it sets up no interval
\* and returns no cleanup.
DetailsMountEffect ==
    /\ ~detailsProvider.effectActive
    /\ detailsProvider.effectRuns < MaxEffectRuns
    /\ IF alreadyFetched(detailsProvider)
           THEN /\ detailsProvider' = [detailsProvider EXCEPT !.effectActive = TRUE,
                                                              !.effectRuns = @ + 1]
                /\ UNCHANGED <<loadingDetails, detailsFetches>>
           ELSE /\ detailsProvider' = [detailsProvider EXCEPT
                                          !.fetchedRef = TRUE,
                                          !.effectActive = TRUE,
                                          !.effectRuns = @ + 1,
                                          !.initialFetches = @ + 1]
                \* fetchDetails()
                /\ loadingDetails' = TRUE
                /\ detailsFetches' = detailsFetches + 1
    /\ UNCHANGED <<owners, loadingOwners, ownerFetches, ownersProvider, details,
                   documentHidden, srvOwners>>
    /\ ProviderFrame

DetailsEffectCleanup ==
    /\ detailsProvider.effectActive
    /\ detailsProvider' = [detailsProvider EXCEPT !.effectActive = FALSE]
    /\ UNCHANGED <<owners, loadingOwners, ownerFetches, ownersProvider, details,
                   loadingDetails, detailsFetches, documentHidden, srvOwners>>
    /\ ProviderFrame

\* The answer to a GET frontendDetails (fetchDetails after its await).
DetailsResponse(ok) ==
    /\ detailsFetches > 0
    /\ detailsFetches' = detailsFetches - 1
    /\ details' = IF ok THEN DetailsData ELSE afterFailure(details, NoDetails)
    /\ loadingDetails' = FALSE
    /\ UNCHANGED <<owners, loadingOwners, ownerFetches, ownersProvider, detailsProvider,
                   documentHidden, srvOwners>>
    /\ ProviderFrame

\* The tab is hidden or shown again.
VisibilityChange ==
    /\ documentHidden' = ~documentHidden
    /\ UNCHANGED <<owners, loadingOwners, ownerFetches, ownersProvider, detailsProvider,
                   details, loadingDetails, detailsFetches, srvOwners>>
    /\ ProviderFrame

\* The roster changes on the server.
ServerChangesOwners(roster) ==
    /\ roster # srvOwners
    /\ srvOwners' = roster
    /\ UNCHANGED <<owners, loadingOwners, ownerFetches, ownersProvider, detailsProvider,
                   details, loadingDetails, detailsFetches, documentHidden>>
    /\ ProviderFrame

NextProviders ==
    \/ OwnersMountEffect
    \/ OwnersEffectCleanup
    \/ OwnersPollTick
    \/ refreshOwners
    \/ \E i \in 1..MaxFetches, ok \in BOOLEAN : OwnersResponse(i, ok)
    \/ DetailsMountEffect
    \/ DetailsEffectCleanup
    \/ \E ok \in BOOLEAN : DetailsResponse(ok)
    \/ VisibilityChange
    \/ \E roster \in OwnerRosters : ServerChangesOwners(roster)

\* ------------------------------------------------------ registration form
MaxFileSize == 5 * 1024 * 1024
MobileLength == 10
TshirtNameMax == 15
TshirtNumberMax == 3

TextFields == {"firstName", "lastName", "tshirtName", "tshirtNumber"}
SelectFields == {"tshirtSize", "role"}
FileFields == {"profileFile", "aadhaarFile", "paymentFile"}
FormFields == TextFields \cup SelectFields \cup FileFields \cup {"mobileNumber"}

\* The fields other than the mobile number, in page order.
FieldOrder == <<"firstName", "lastName", "tshirtSize", "role", "tshirtName",
                "tshirtNumber", "profileFile", "aadhaarFile", "paymentFile">>

NoFile == [size |-> 0, isImage |-> FALSE]
NoNumber == <<"-">>
NoRequest == [sent |-> FALSE]
NoError == ""

Digits == {"0", "1", "2", "3", "4", "5", "6", "7", "8", "9"}
IsDigit(c) == c \in Digits

RegisteredNumber == <<"9", "0", "0", "0", "0", "0", "0", "0", "0", "1">>
FreeNumber == <<"9", "0", "0", "0", "0", "0", "0", "0", "0", "2">>

\* What the user may type or paste into the inputs.
MobileInputs == {<<>>, <<"9", "8", "a", "7">>, RegisteredNumber, FreeNumber,
                 FreeNumber \o <<"5">>, <<"+">> \o RegisteredNumber}
NameInputs == {<<" ">>, <<"A", "s", "h", "a">>}
TshirtNameInputs == {<<"A", "B", "C", "D", "E", "F", "G", "H", "I", "J", "K", "L", "M",
                       "N", "O", "P">>}
TshirtNumberInputs == {<<"1", "a", "2", "3", "4">>}
SizeOptions == {"M"}
RoleOptions == {"Batsman"}
FileInputs == {[size |-> MaxFileSize, isImage |-> TRUE],
               [size |-> MaxFileSize, isImage |-> FALSE],
               [size |-> MaxFileSize + 1, isImage |-> TRUE]}

Min(a, b) == IF a <= b THEN a ELSE b

\* String.prototype.slice(0, n)
Slice(str, n) == SubSeq(str, 1, Min(n, Len(str)))

\* String.prototype.replace(/\D/g, '')
DigitsOnly(str) == SelectSeq(str, IsDigit)

\* /^\d{n}$/ and /^\d{1,n}$/
IsNDigits(str, n) == Len(str) = n /\ \A i \in 1..Len(str) : IsDigit(str[i])
IsUpToNDigits(str, n) ==
    Len(str) >= 1 /\ Len(str) <= n /\ \A i \in 1..Len(str) : IsDigit(str[i])

\* onChange of the inputs
mobileOnChange(raw) == Slice(DigitsOnly(raw), MobileLength)
tshirtNameOnChange(raw) == Slice(raw, TshirtNameMax)
tshirtNumberOnChange(raw) == Slice(DigitsOnly(raw), TshirtNumberMax)

EmptyForm ==
    [firstName |-> <<>>, lastName |-> <<>>, mobileNumber |-> <<>>, tshirtSize |-> "",
     tshirtName |-> <<>>, tshirtNumber |-> <<>>, role |-> "",
     profileFile |-> NoFile, aadhaarFile |-> NoFile, paymentFile |-> NoFile]

NoErrors == [f \in FormFields |-> NoError]

IsEmptyField(fd, f) ==
    IF f \in FileFields THEN fd[f] = NoFile
    ELSE IF f \in SelectFields THEN fd[f] = ""
    ELSE Len(Trim(fd[f])) = 0

validateForm(fd, status) ==
    [f \in FormFields |->
        CASE f = "firstName" -> IF Len(Trim(fd.firstName)) = 0 THEN "required" ELSE NoError
          [] f = "lastName" -> IF Len(Trim(fd.lastName)) = 0 THEN "required" ELSE NoError
          [] f = "mobileNumber" ->
                IF Len(Trim(fd.mobileNumber)) = 0 THEN "required"
                ELSE IF Len(fd.mobileNumber) # MobileLength THEN "length"
                ELSE IF ~IsNDigits(fd.mobileNumber, MobileLength) THEN "digits"
                ELSE IF status = "exists" THEN "registered"
                ELSE NoError
          [] f = "tshirtSize" -> IF fd.tshirtSize = "" THEN "required" ELSE NoError
          [] f = "tshirtName" ->
                IF Len(Trim(fd.tshirtName)) = 0 THEN "required"
                ELSE IF Len(Trim(fd.tshirtName)) > TshirtNameMax THEN "max15"
                ELSE NoError
          [] f = "tshirtNumber" ->
                IF Len(Trim(fd.tshirtNumber)) = 0 THEN "required"
                ELSE IF ~IsUpToNDigits(Trim(fd.tshirtNumber), TshirtNumberMax) THEN "invalid"
                ELSE NoError
          [] f = "role" -> IF fd.role = "" THEN "required" ELSE NoError
          [] OTHER -> IF fd[f] = NoFile THEN "required" ELSE NoError]

isFormComplete(fd) ==
    /\ Len(Trim(fd.firstName)) # 0
    /\ Len(Trim(fd.lastName)) # 0
    /\ Len(Trim(fd.mobileNumber)) # 0
    /\ IsNDigits(fd.mobileNumber, MobileLength)
    /\ fd.tshirtSize # ""
    /\ Len(Trim(fd.tshirtName)) # 0
    /\ Len(Trim(fd.tshirtNumber)) # 0
    /\ IsUpToNDigits(Trim(fd.tshirtNumber), TshirtNumberMax)
    /\ fd.role # ""
    /\ fd.profileFile # NoFile
    /\ fd.aadhaarFile # NoFile
    /\ fd.paymentFile # NoFile

\* The effect on [formData.mobileNumber], run after a render in which the
\* number changed: new errors, status and debounce timer.
mobileEffect(number, errs) ==
    LET mobileNumber == Trim(number)
    IN  IF Len(mobileNumber) = 0
            THEN [errors |-> IF errs.mobileNumber # NoError /\ errs.mobileNumber # "required"
                                 THEN [errs EXCEPT !.mobileNumber = NoError] ELSE errs,
                  status |-> "idle", timer |-> NoNumber]
        ELSE IF Len(mobileNumber) # MobileLength
            THEN [errors |-> [errs EXCEPT !.mobileNumber = "length"],
                  status |-> "idle", timer |-> NoNumber]
        ELSE IF ~IsNDigits(mobileNumber, MobileLength)
            THEN [errors |-> [errs EXCEPT !.mobileNumber = "digits"],
                  status |-> "idle", timer |-> NoNumber]
        ELSE [errors |-> IF errs.mobileNumber # NoError /\ errs.mobileNumber # "registered"
                             THEN [errs EXCEPT !.mobileNumber = NoError] ELSE errs,
              status |-> "checking", timer |-> mobileNumber]

\* The fields above f on the page are filled in.
EarlierFilled(f) ==
    \A i, j \in 1..Len(FieldOrder) :
        (FieldOrder[j] = f /\ i < j) => ~IsEmptyField(formData, FieldOrder[i])

InitForm ==
    /\ formData = EmptyForm
    /\ errors = NoErrors
    /\ isSubmitting = FALSE
    /\ submitStatus = "idle"
    /\ showConfirmation = FALSE
    /\ mobileNumberStatus = "idle"
    /\ submitSeesStatus = "idle"
    /\ checkTimer = NoNumber
    /\ checksInFlight = {}
    /\ registerRequest = NoRequest
    /\ srvRegistered = {RegisteredNumber}

\* setFormData with no change of the mobile number: handleSubmit is created
\* again and captures the mobileNumberStatus of this render.
SetField(f, value) ==
    /\ formData' = [formData EXCEPT ![f] = value]
    /\ submitSeesStatus' = mobileNumberStatus

TypeText(f, raw) ==
    /\ ~showConfirmation
    /\ EarlierFilled(f)
    /\ IsEmptyField(formData, f)
    /\ SetField(f, CASE f = "tshirtName" -> tshirtNameOnChange(raw)
                     [] f = "tshirtNumber" -> tshirtNumberOnChange(raw)
                     [] OTHER -> raw)
    /\ UNCHANGED <<errors, isSubmitting, submitStatus, showConfirmation, mobileNumberStatus,
                   checkTimer, checksInFlight, registerRequest, srvRegistered>>
    /\ UNCHANGED <<auctionVars, providerVars, configVars>>

SelectOption(f, value) ==
    /\ ~showConfirmation
    /\ EarlierFilled(f)
    /\ IsEmptyField(formData, f)
    /\ SetField(f, value)
    /\ UNCHANGED <<errors, isSubmitting, submitStatus, showConfirmation, mobileNumberStatus,
                   checkTimer, checksInFlight, registerRequest, srvRegistered>>
    /\ UNCHANGED <<auctionVars, providerVars, configVars>>

\* onChange of the mobile input, then the effect when the number changed.
TypeMobile(raw) ==
    /\ ~showConfirmation
    /\ LET value == mobileOnChange(raw)
           eff == mobileEffect(value, errors)
       IN  /\ SetField("mobileNumber", value)
           /\ IF value # formData.mobileNumber
                  THEN /\ errors' = eff.errors
                       /\ mobileNumberStatus' = eff.status
                       /\ checkTimer' = eff.timer
                  ELSE UNCHANGED <<errors, mobileNumberStatus, checkTimer>>
    /\ UNCHANGED <<isSubmitting, submitStatus, showConfirmation, checksInFlight,
                   registerRequest, srvRegistered>>
    /\ UNCHANGED <<auctionVars, providerVars, configVars>>

handleFileChange(type, file) ==
    /\ ~showConfirmation
    /\ EarlierFilled(type)
    /\ IsEmptyField(formData, type)
    /\ IF file.size > MaxFileSize
           THEN /\ errors' = [errors EXCEPT ![type] = "size"]
                /\ UNCHANGED <<formData, submitSeesStatus>>
           ELSE /\ SetField(type, file)
                /\ errors' = [errors EXCEPT ![type] = NoError]
    /\ UNCHANGED <<isSubmitting, submitStatus, showConfirmation, mobileNumberStatus,
                   checkTimer, checksInFlight, registerRequest, srvRegistered>>
    /\ UNCHANGED <<auctionVars, providerVars, configVars>>

\* The debounce timer fires: the check-mobile request is sent.
CheckTimerFires ==
    /\ checkTimer # NoNumber
    /\ checksInFlight' = checksInFlight \cup {checkTimer}
    /\ checkTimer' = NoNumber
    /\ UNCHANGED <<formData, errors, isSubmitting, submitStatus, showConfirmation,
                   mobileNumberStatus, submitSeesStatus, registerRequest, srvRegistered>>
    /\ UNCHANGED <<auctionVars, providerVars, configVars>>

\* The answer to a check-mobile request: exists / not found, or an error.
CheckResponse(number, answered) ==
    /\ number \in checksInFlight
    /\ checksInFlight' = checksInFlight \ {number}
    /\ IF ~answered
           THEN /\ mobileNumberStatus' = "idle"
                /\ UNCHANGED errors
           ELSE IF number \in srvRegistered
               THEN /\ mobileNumberStatus' = "exists"
                    /\ errors' = [errors EXCEPT !.mobileNumber = "registered"]
               ELSE /\ mobileNumberStatus' = "available"
                    /\ errors' = IF errors.mobileNumber = "registered"
                                     THEN [errors EXCEPT !.mobileNumber = NoError]
                                     ELSE errors
    /\ UNCHANGED <<formData, isSubmitting, submitStatus, showConfirmation, submitSeesStatus,
                   checkTimer, registerRequest, srvRegistered>>
    /\ UNCHANGED <<auctionVars, providerVars, configVars>>

\* The submit button: disabled={isSubmitting || !isFormComplete}.
SubmitEnabled == ~showConfirmation /\ ~isSubmitting /\ isFormComplete(formData)

HasErrors(errs) == \E f \in FormFields : errs[f] # NoError

handleSubmit ==
    /\ SubmitEnabled
    /\ LET newErrors == validateForm(formData, submitSeesStatus)
       IN  /\ errors' = newErrors
           /\ IF HasErrors(newErrors)
                  THEN UNCHANGED <<isSubmitting, submitStatus, registerRequest>>
                  ELSE /\ isSubmitting' = TRUE
                       /\ submitStatus' = "idle"
                       /\ registerRequest' = [sent |-> TRUE, form |-> formData]
    /\ UNCHANGED <<formData, showConfirmation, mobileNumberStatus, submitSeesStatus,
                   checkTimer, checksInFlight, srvRegistered>>
    /\ UNCHANGED <<auctionVars, providerVars, configVars>>

\* How a POST register ends: 2xx with success true, a non-2xx status, 2xx
\* with success false, or fetch rejecting.
RegisterOutcomes == {"success", "status", "body", "network"}

\* `if (!response.ok) {...return}` and then `if (result.success)`
ignoresResultSuccess(outcome) == outcome \in {"success", "body"}

registerSucceeded(outcome) == outcome = "success"

\* handleSubmit after `await fetch(register)`.
RegisterResponse(outcome) ==
    /\ registerRequest # NoRequest
    /\ registerRequest' = NoRequest
    /\ isSubmitting' = FALSE
    /\ IF registerSucceeded(outcome)
           THEN LET eff == mobileEffect(EmptyForm.mobileNumber, NoErrors)
                IN  /\ submitStatus' = "success"
                    /\ showConfirmation' = TRUE
                    /\ formData' = EmptyForm
                    /\ submitSeesStatus' = mobileNumberStatus
                    /\ srvRegistered' = srvRegistered \cup {registerRequest.form.mobileNumber}
                    /\ IF formData.mobileNumber # EmptyForm.mobileNumber
                           THEN /\ errors' = eff.errors
                                /\ mobileNumberStatus' = eff.status
                                /\ checkTimer' = eff.timer
                           ELSE /\ errors' = NoErrors
                                /\ UNCHANGED <<mobileNumberStatus, checkTimer>>
           ELSE /\ submitStatus' = "error"
                /\ UNCHANGED <<formData, errors, showConfirmation, mobileNumberStatus,
                               submitSeesStatus, checkTimer, srvRegistered>>
    /\ UNCHANGED checksInFlight
    /\ UNCHANGED <<auctionVars, providerVars, configVars>>

\* "Register another" on the confirmation view.
handleResetForm ==
    /\ showConfirmation
    /\ showConfirmation' = FALSE
    /\ submitStatus' = "idle"
    /\ mobileNumberStatus' = "idle"
    /\ submitSeesStatus' = "idle"
    /\ formData' = EmptyForm
    /\ errors' = NoErrors
    /\ UNCHANGED <<isSubmitting, checkTimer, checksInFlight, registerRequest, srvRegistered>>
    /\ UNCHANGED <<auctionVars, providerVars, configVars>>

NextForm ==
    \/ \E raw \in NameInputs : TypeText("firstName", raw)
    \/ \E raw \in NameInputs : TypeText("lastName", raw)
    \/ \E raw \in TshirtNameInputs : TypeText("tshirtName", raw)
    \/ \E raw \in TshirtNumberInputs : TypeText("tshirtNumber", raw)
    \/ \E v \in SizeOptions : SelectOption("tshirtSize", v)
    \/ \E v \in RoleOptions : SelectOption("role", v)
    \/ \E raw \in MobileInputs : TypeMobile(raw)
    \/ \E type \in FileFields, file \in FileInputs : handleFileChange(type, file)
    \/ CheckTimerFires
    \/ \E number \in {RegisteredNumber, FreeNumber}, answered \in BOOLEAN :
          CheckResponse(number, answered)
    \/ handleSubmit
    \/ \E outcome \in RegisterOutcomes : RegisterResponse(outcome)
    \/ handleResetForm

\* ------------------------------------------------------- API configuration
Unset == "(unset)"

\* import.meta.env: the two variables are absent, empty or hold a text.
Envs ==
    [VITE_API_URL : {Unset, "", "https://api.example.org"},
     VITE_USE_LOCALHOST : {Unset, "true", "false", "TRUE", "1"},
     DEV : BOOLEAN]

\* A production build with neither variable defined.
DefaultEnv == [VITE_API_URL |-> Unset, VITE_USE_LOCALHOST |-> Unset, DEV |-> FALSE]

Endpoints ==
    [register |-> "/api/register", details |-> "/api/details",
     checkMobile |-> "/api/check-mobile"]

developmentConfig == [baseUrl |-> "http://localhost:4000", endpoints |-> Endpoints]

productionConfig ==
    [baseUrl |-> "https://mpl-backend-3iiq.onrender.com", endpoints |-> Endpoints]

NoConfig == [baseUrl |-> Unset]

\* JavaScript truthiness of a string that may be undefined.
Truthy(v) == v # Unset /\ v # ""

useLocalhostInDev(e) == (e.VITE_USE_LOCALHOST = "true" \/ e.DEV) /\ ~Truthy(e.VITE_API_URL)

useLocalhost(e) == e.VITE_USE_LOCALHOST = "true" /\ ~Truthy(e.VITE_API_URL)

apiConfigOf(e) ==
    IF Truthy(e.VITE_API_URL)
        THEN [baseUrl |-> e.VITE_API_URL, endpoints |-> Endpoints]
        ELSE IF useLocalhost(e) THEN developmentConfig ELSE productionConfig

getApiUrl(endpoint) == apiConfig.baseUrl \o apiConfig.endpoints[endpoint]

\* The module has been evaluated in a production build.
ConfigLoaded ==
    /\ env = DefaultEnv
    /\ apiConfig = apiConfigOf(DefaultEnv)
    /\ requestedUrl = Unset

\* The bundle is about to be evaluated, in some build environment.
InitConfig ==
    /\ env \in Envs
    /\ apiConfig = NoConfig
    /\ requestedUrl = Unset

\* The module body runs once, when the bundle is loaded.
EvaluateApiConfig ==
    /\ apiConfig = NoConfig
    /\ apiConfig' = apiConfigOf(env)
    /\ UNCHANGED <<env, requestedUrl>>
    /\ UNCHANGED <<auctionVars, formVars, providerVars>>

\* A component builds the URL of a request.
CallGetApiUrl(endpoint) ==
    /\ apiConfig # NoConfig
    /\ requestedUrl' = getApiUrl(endpoint)
    /\ UNCHANGED <<env, apiConfig>>
    /\ UNCHANGED <<auctionVars, formVars, providerVars>>

NextConfig ==
    \/ EvaluateApiConfig
    \/ \E endpoint \in DOMAIN Endpoints : CallGetApiUrl(endpoint)

Init == InitAuction /\ InitForm /\ ConfigLoaded

Next == NextAuction

Spec == Init /\ [][Next]_vars

SpecForm == Init /\ [][NextForm]_vars

SpecSearch == Init /\ [][NextSearch]_vars

\* The application from its first render: the providers' effects have not run.
InitMount == InitPage /\ InitForm /\ ProvidersFresh /\ ConfigLoaded

SpecProviders == InitMount /\ [][NextProviders]_vars

SpecIndexPage == Init /\ [][NextIndexPage]_vars

\* The page state as in Init, the configuration module not yet evaluated.
InitBuild == InitAuction /\ InitForm /\ InitConfig

SpecConfig == InitBuild /\ [][NextConfig]_vars


\* ------------------------------------------------------- auction claims
InList(list, mobile) == \E i \in 1..Len(list) : list[i].mobileNumber = mobile

PutsInFlight == {a \in 1..MaxAssigns : assigns[a].pc = "put"}

\* C1: while the modal shows a player whose category base price is P, the
\* bid counter is never below P.
C1_BidNeverBelowBase ==
    ModalRendered => bidAmount >= CategoryBasePrice[CategoryOf(selectedPlayer.mobileNumber)]

\* The modal shows a player whose base price is above the step, with the
\* counter on the floor a further ArrowDown must not pass.
C1_Witness ==
    /\ ModalRendered
    /\ CategoryBasePrice[CategoryOf(selectedPlayer.mobileNumber)] > BidStep
    /\ bidAmount = CategoryBasePrice[CategoryOf(selectedPlayer.mobileNumber)]

\* C2: every PUT players/{mobileNumber} in flight carries a bidAmount that is
\* at least the category base price of the player it names.
C2_RequestBidAtLeastBase ==
    \A a \in PutsInFlight :
        assigns[a].bidAmount >= CategoryBasePrice[CategoryOf(assigns[a].mobileNumber)]

\* A request is in flight whose bid was raised above the base price.
C2_Witness ==
    \E a \in PutsInFlight :
        assigns[a].bidAmount > CategoryBasePrice[CategoryOf(assigns[a].mobileNumber)]

\* C3 (as claimed): a non-null cursor always points into the loaded list.
C3_CursorInList ==
    selectedPlayerIndex # Null => selectedPlayerIndex \in 1..Len(players)

\* C4: when the auto-advance timer fires and the remembered next player is in
\* the current list, the cursor moves to exactly that player and the counter
\* becomes that player's category base price.
C4_AutoAdvanceFocusesNext ==
    [][(AutoAdvance /\ InList(players, successTimeoutRef.nextPlayerMobile))
          => /\ selectedPlayer'.mobileNumber = successTimeoutRef.nextPlayerMobile
             /\ bidAmount' = CategoryBasePrice[CategoryOf(successTimeoutRef.nextPlayerMobile)]
      ]_vars

\* The timer is pending for a next player that the refresh moved to another
\* index than the one it had in the full list, the modal still being open.
C4_Witness ==
    /\ successTimeoutRef.pending
    /\ isModalOpen
    /\ InList(players, successTimeoutRef.nextPlayerMobile)
    /\ findIndex(players, successTimeoutRef.nextPlayerMobile)
           # successTimeoutRef.nextPlayerMobile

C6_RefreshesBeforeTimer ==
    [][\A a \in 1..MaxAssigns :
          (assigns[a].pc = "refresh" /\ assigns'[a].pc # "refresh")
              => /\ ~TaggedIn(fetches', a)
                 /\ ~TaggedIn(ownerFetches', a)
                 /\ successTimeoutRef'.pending
      ]_vars

\* One refresh of an invocation has completed, the other has not, and no
\* timer has been started.
C6_Witness ==
    \E a \in 1..MaxAssigns :
        /\ assigns[a].pc = "refresh"
        /\ ~TaggedIn(fetches, a)
        /\ TaggedIn(ownerFetches, a)
        /\ ~successTimeoutRef.pending

\* C7 (as claimed): no two assignment requests for the same player and the
\* same owner are in flight together, and the tile of a request in flight is
\* disabled.
C7_NoDuplicateAssignment ==
    /\ \A a, b \in PutsInFlight :
          (assigns[a].ownerId = assigns[b].ownerId
              /\ assigns[a].mobileNumber = assigns[b].mobileNumber) => a = b
    /\ \A a \in PutsInFlight : isUpdating(assigns[a].ownerId)

\* C8: a successful response to any request in flight replaces the list with
\* that response's data, whether or not a later request exists or has already
\* been answered.
C8_EveryResponseOverwrites ==
    [][\A i \in 1..MaxFetches :
          PlayersResponse(i, TRUE) => players' = ServerPlayers(fetches[i].body)
      ]_vars

\* The only request in flight is for filters that are no longer the current
\* ones (the later request has been answered), and its answer differs from
\* the list for the current filters.
C8_Witness ==
    /\ Len(fetches) = 1
    /\ ~fetches[1].silent
    /\ fetches[1].body # requestBody(filters)
    /\ ~loading
    /\ ServerPlayers(fetches[1].body) # ServerPlayers(requestBody(filters))
    /\ players = ServerPlayers(requestBody(filters))


\* ---------------------------------------------------------------- claims C9-C10

\* C9: while the check-mobile result has marked the number as 'exists' a
\* submission is blocked and sends no register request, in whatever order the
\* fields were filled in; with the number marked 'available' and every other
\* field valid, a submission sends the register request.
C9_ExistsBlocksSubmit ==
    [][handleSubmit =>
          /\ mobileNumberStatus = "exists" =>
                 (registerRequest' = NoRequest /\ errors'.mobileNumber # NoError)
          /\ mobileNumberStatus = "available" => registerRequest' # NoRequest]_vars

\* The size/type constraint shown next to the file inputs ("PNG, JPG up to
\* 5MB", accept="image/*").
ExceedsFileConstraint(file) == file.size > MaxFileSize \/ ~file.isImage

\* C10: a submission with a required field empty, or with a file that exceeds
\* the size/type constraint, sets an error on that field and sends no request.
C10_InvalidSubmitRejected ==
    [][handleSubmit =>
          \A f \in FormFields :
              (\/ IsEmptyField(formData, f)
               \/ (f \in FileFields /\ formData[f] # NoFile
                                    /\ ExceedsFileConstraint(formData[f])))
              => (errors'[f] # NoError /\ registerRequest' = NoRequest)]_vars


\* --------------------------------------------------------------- claims C11-C20

Directions == {"next", "prev"}

\* The category base price of the player with the given mobile number, as
\* the server defines it.
BasePriceOf(mobile) == CategoryBasePrice[CategoryOf(mobile)]

\* No player of the category of list[idx] lies beyond idx in the direction.
AtCategoryEnd(list, idx, direction) ==
    /\ idx \in 1..Len(list)
    /\ \A j \in 1..Len(list) :
          CategoryOf(list[j].mobileNumber) = CategoryOf(list[idx].mobileNumber)
              => IF direction = "next" THEN j <= idx ELSE j >= idx

\* C11: every next / previous move that changes the focus lands on a player
\* of the same category as the player focused before the move.
C11_MoveStaysInCategory ==
    [][\A d \in Directions :
          (selectedPlayerIndex' # selectedPlayerIndex /\ Navigate(d))
              => /\ selectedPlayerIndex' \in 1..Len(players)
                 /\ CategoryOf(players[selectedPlayerIndex'].mobileNumber)
                        = CategoryOf(selectedPlayer.mobileNumber)
      ]_vars

\* A move is possible and has to skip a player of another category.
C11_Witness ==
    /\ ModalRendered
    /\ \E d \in Directions :
          LET target == findNextPlayerInCategoryOrder(players, selectedPlayerIndex, d)
          IN  /\ target # Null
              /\ target # selectedPlayerIndex + 1
              /\ target # selectedPlayerIndex - 1

\* C12: with the focused player the last of its category in the list, the
\* next arrow is not offered and a next move changes neither the focus nor
\* the bid counter; likewise for previous at the first of the category.
C12_NoMoveAtCategoryEnd ==
    [][\A d \in Directions :
          (ModalRendered /\ AtCategoryEnd(players, selectedPlayerIndex, d))
              => /\ ~ArrowOffered(d)
                 /\ (selectedPlayerIndex' # selectedPlayerIndex \/ bidAmount' # bidAmount)
                        => ~Navigate(d)
      ]_vars

\* The focused player is the last of its category, is followed in the list by
\* a player of another category, and the counter has been raised.
C12_Witness ==
    /\ ModalRendered
    /\ AtCategoryEnd(players, selectedPlayerIndex, "next")
    /\ selectedPlayerIndex < Len(players)
    /\ bidAmount > BasePriceOf(selectedPlayer.mobileNumber)

C14_FocusChangeResetsBid ==
    [][(isModalOpen' /\ selectedPlayerIndex' # selectedPlayerIndex)
          => /\ selectedPlayerIndex' \in 1..Len(players')
             /\ bidAmount' = BasePriceOf(players'[selectedPlayerIndex'].mobileNumber)
      ]_vars

\* The modal shows a player with a raised counter and a next / previous move
\* to another player is possible.
C14_Witness ==
    /\ ModalRendered
    /\ bidAmount > BasePriceOf(selectedPlayer.mobileNumber)
    /\ \E d \in Directions : ArrowOffered(d)

\* C15: when an assignment call fails, an alert with the server's or the
\* generic message is raised, the in-flight marker is cleared, and no
\* request, list refresh, overlay or auto-advance timer is started.
C15_FailureAlertsOnly ==
    [][\A a \in 1..MaxAssigns :
          (assigns[a].pc = "put" /\ assigns'[a].pc = "idle")
              => /\ alertShown' \in {"server", "generic"}
                 /\ \A kind \in FailureKinds, serverMessage \in BOOLEAN :
                        AssignFails(a, kind, serverMessage)
                            => ((alertShown' = "server")
                                    <=> (kind # "network" /\ serverMessage))
                 /\ updatingOwner' = NoOwner
                 /\ PutsInFlight' = PutsInFlight \ {a}
                 /\ fetches' = fetches
                 /\ ownerFetches' = ownerFetches
                 /\ successMessage' = successMessage
                 /\ successTimeoutRef' = successTimeoutRef
                 /\ selectedPlayerIndex' = selectedPlayerIndex
                 /\ players' = players
      ]_vars

\* An assignment request is in flight with its owner marked as updating.
C15_Witness ==
    \E a \in PutsInFlight : updatingOwner = assigns[a].ownerId

\* C16: a keystroke in the search box changes neither the applied search
\* filter nor the requests in flight; it cancels the pending debounce timer
\* and starts one for the new text, so at most one timer is pending, and it
\* is for the text now in the box; the filter takes a typed text when that
\* timer fires, and a changed filter sends one player-list request.
C16_SearchDebounced ==
    [][/\ Len(searchTimers') <= 1
       /\ \A i \in 1..Len(searchTimers') : searchTimers'[i] = searchInput'
       /\ \A value \in SearchInputs :
             handleSearchChange(value)
                 => /\ filters' = filters
                    /\ fetches' = fetches
                    /\ searchTimers' = <<value>>
       /\ \A i \in 1..Len(searchTimers) :
             SearchTimerFires(i)
                 => /\ filters'.search = searchInput
                    /\ searchTimers' = <<>>
                    /\ IF filters'.search # filters.search
                           THEN /\ Len(fetches') = Len(fetches) + 1
                                /\ fetches'[Len(fetches')].body.search = Trim(searchInput)
                           ELSE fetches' = fetches
      ]_vars

\* A timer is pending for a typed text that is not the applied filter, after
\* an earlier typed text was applied.
C16_Witness ==
    /\ Len(searchTimers) = 1
    /\ searchInput # <<>>
    /\ filters.search # <<>>
    /\ searchTimers[1] # filters.search

Providers == {"owners", "details"}

ProviderOf(name) == IF name = "owners" THEN ownersProvider ELSE detailsProvider

\* C17 (as claimed): each of the two providers, while its effect is in
\* place, has a polling interval running.
C17_BothProvidersPoll ==
    \A name \in Providers : ProviderOf(name).effectActive => ProviderOf(name).polling

\* C18: a polling tick with the document hidden issues no request; a tick
\* leaves the loading flag alone and the request it issues is silent; the
\* answer to a silent request leaves the loading flag alone.
C18_PollingSilentAndVisibleOnly ==
    [][/\ OwnersPollTick
           => /\ documentHidden => ownerFetches' = ownerFetches
              /\ ~documentHidden => Len(ownerFetches') = Len(ownerFetches) + 1
              /\ loadingOwners' = loadingOwners
              /\ ownerFetches' # ownerFetches => ownerFetches'[Len(ownerFetches')].silent
       /\ \A i \in 1..Len(ownerFetches), ok \in BOOLEAN :
             (ownerFetches[i].silent /\ OwnersResponse(i, ok))
                 => loadingOwners' = loadingOwners
      ]_vars

\* The interval is running with the document hidden, the loading flag down
\* and a silent request of an earlier tick still in flight.
C18_Witness ==
    /\ ownersProvider.polling
    /\ documentHidden
    /\ ~loadingOwners
    /\ Len(ownerFetches) = 1
    /\ ownerFetches[1].silent

\* C19: a failed fetch of a provider leaves its cached value as it was.
C19_FailureKeepsCache ==
    [][/\ \A i \in 1..Len(ownerFetches) : OwnersResponse(i, FALSE) => owners' = owners
       /\ DetailsResponse(FALSE) => details' = details
      ]_vars

\* A refresh is in flight while the cache holds a loaded roster that is no
\* longer the server's.
C19_Witness ==
    /\ Len(ownerFetches) > 0
    /\ owners # {}
    /\ owners # srvOwners

\* C20: the mount effect of a provider issues its fetch exactly once, however
\* often the effect runs.
C20_InitialFetchOnce ==
    \A name \in Providers :
        /\ ProviderOf(name).initialFetches <= 1
        /\ ProviderOf(name).effectRuns >= 1 => ProviderOf(name).initialFetches = 1

\* The mount effect of both providers has run a second time.
C20_Witness ==
    \A name \in Providers : ProviderOf(name).effectRuns >= 2

\* --------------------------------------------------------------- claims C21-C30

\* C21: when a register request completes, the submitting flag is false; on
\* success every form field is empty and the confirmation view is shown; on
\* a failure of any kind the form data is kept, the error banner is shown
\* and a complete form can be submitted again.
C21_RegisterCompletion ==
    [][\A outcome \in RegisterOutcomes :
          RegisterResponse(outcome)
              => /\ ~isSubmitting'
                 /\ IF outcome = "success"
                        THEN formData' = EmptyForm /\ showConfirmation'
                        ELSE /\ formData' = formData
                             /\ submitStatus' = "error"
                             /\ ~showConfirmation'
                             /\ isFormComplete(formData) => SubmitEnabled'
      ]_vars

\* A register request is in flight for a complete form.
C21_Witness ==
    /\ registerRequest # NoRequest
    /\ isSubmitting
    /\ isFormComplete(formData)
    /\ registerRequest.form = formData

C23_ReplacementKeepsFocus ==
    [][(players' # players /\ selectedPlayer # NoPlayer)
          => \/ selectedPlayer'.mobileNumber = selectedPlayer.mobileNumber
             \/ selectedPlayer' = NoPlayer
      ]_vars

\* C24 (as claimed): while the modal is closed the cursor is null.
C24_ClosedModalNullCursor ==
    ~isModalOpen => selectedPlayerIndex = Null

\* C25 (as claimed): a check-mobile response that sets the status to exists
\* or available is the response to the check of the number now in the field.
C25_StatusIsForCurrentNumber ==
    [][\A number \in checksInFlight :
          (number \notin checksInFlight' /\ mobileNumberStatus' \in {"exists", "available"})
              => number = Trim(formData.mobileNumber)
      ]_vars

\* C26 (as claimed): while the mount effect of the owners provider is in
\* place, its first run or a later one, the polling interval is running.
C26_MountedOwnersProviderPolls ==
    ownersProvider.effectActive => ownersProvider.polling

\* C27 (as claimed): the congratulation overlay is on screen exactly while
\* the auto-advance timer is pending.
C27_OverlayWhileTimerPending ==
    OverlayDisplayed <=> successTimeoutRef.pending

\* The player that followed list[idx] in the list, Null when it was last.
FollowerOf(list, idx) == IF idx < Len(list) THEN list[idx + 1].mobileNumber ELSE Null

\* C28 (as claimed): when the auto-advance of an assignment in the
\* index-based page completes, the focus is on the player that followed the
\* assigned player in the list the tile was clicked in, provided that player
\* is in the list now.
C28_IndexPageAdvancesToFollower ==
    [][\A a \in 1..MaxAssigns :
          (assigns[a].pc \in {"refetch", "slide"} /\ assigns'[a] = NoAssign)
              => LET follower == FollowerOf(assigns[a].allPlayers,
                                            assigns[a].selectedPlayerIndex)
                 IN  (follower # Null /\ InList(players', follower))
                         => selectedPlayer'.mobileNumber = follower
      ]_vars

\* C29: a Left, Right or Escape key press with the modal closed changes
\* nothing in the auction view; Escape with the modal open closes it, clears
\* the cursor and the overlay, resets the counter and cancels the pending
\* auto-advance timer.
C29_ModalKeysOnlyWhenOpen ==
    [][\A key \in ModalKeys :
          handleKeyDown(key)
              => IF ~isModalOpen
                     THEN UNCHANGED <<players, loading, selectedPlayerIndex, isModalOpen,
                                      filters, updatingOwner, successMessage, bidAmount,
                                      successTimeoutRef, fetches, assigns, searchVars>>
                     ELSE key = "Escape"
                              => /\ ~isModalOpen'
                                 /\ selectedPlayerIndex' = Null
                                 /\ successMessage' = NoMessage
                                 /\ bidAmount' = 0
                                 /\ successTimeoutRef' = NoTimer
      ]_vars

\* The modal is closed while a raised counter, an overlay state and a pending
\* timer are there for a key press to disturb.
C29_Witness ==
    /\ ~isModalOpen
    /\ successMessage.shown
    /\ bidAmount > 0
    /\ successTimeoutRef.pending

\* C30 (as claimed): the loading flag is up exactly while a non-silent
\* player-list fetch is in flight.
C30_LoadingWhileFetching ==
    loading <=> \E i \in 1..Len(fetches) : ~fetches[i].silent

====
